---- MODULE Spec2Model ----
(***************************************************************************)
(* Kaleidoscope front-end: token stream, recursive-descent / precedence    *)
(* climbing parser, AST-to-IR lowering and the top-level driver loop.      *)
(*                                                                         *)
(* The lexer is modelled at lexeme granularity: a source text is a         *)
(* sequence of words, numerals and single characters, AdvanceToken         *)
(* classifies each of them, `input' is the resulting token sequence and    *)
(* `pos' the number of tokens handed out so far.  Numbers are integers.    *)
(* IR is kept as a tree of lowered nodes whose variable references are     *)
(* already resolved to storage slots; the execution engine is an           *)
(* interpreter over that tree that performs the operations in the order    *)
(* the lowering emitted them.                                              *)
(***************************************************************************)
EXTENDS Integers, Sequences, FiniteSets, TLC

VARIABLES
  input,               \* the token sequence the lexer will produce
  pos,                 \* tokens handed out by AdvanceToken so far
  pc,                  \* driver position: "loop", "returned", "aborted"
  binaryOpPrecedence,  \* std::map<char,int>
  functionPrototypes,  \* std::map<std::string, PrototypeAST>
  module,              \* functions of the current llvm::Module
  namedValues,         \* std::map<std::string, AllocaInst*>
  jit,                 \* modules currently held by the execution engine
  nextAlloca,          \* number of storage slots created so far
  diag,                \* diagnostics written during the last item
  last                 \* observation record of the last handled item

vars == <<input, pos, pc, binaryOpPrecedence, functionPrototypes, module,
          namedValues, jit, nextAlloca, diag, last>>

-----------------------------------------------------------------------------
(* Bounds *)

MaxChain == 4      \* operands in an operator-chain input
MaxTokens == 4     \* length of an arbitrary token-sequence input
MaxFuel == 12      \* loop iterations / calls the interpreter follows
MaxStart == 2      \* loop start values 0..MaxStart
MaxSpan == 2       \* loop end is start + 1..MaxSpan
MaxItems == 2      \* top-level items in a program input
MaxShadow == 2     \* values bound in the shadowing inputs: 1..MaxShadow
MaxParams == 3     \* parameters of an operator prototype input: 0..MaxParams
MaxArgs == 3       \* arguments of a call input: 0..MaxArgs
MaxCond == 2       \* operands of the condition of an if input: 0..MaxCond

-----------------------------------------------------------------------------
(* Tokens *)

Tok(t, s, n) == [t |-> t, s |-> s, n |-> n]
tok_eof == Tok("eof", "", 0)
tok_def == Tok("def", "", 0)
tok_extern == Tok("extern", "", 0)
tok_if == Tok("if", "", 0)
tok_then == Tok("then", "", 0)
tok_else == Tok("else", "", 0)
tok_for == Tok("for", "", 0)
tok_in == Tok("in", "", 0)
tok_binary == Tok("binary", "", 0)
tok_unary == Tok("unary", "", 0)
tok_var == Tok("var", "", 0)
Id(s) == Tok("identifier", s, 0)
Num(n) == Tok("number", "", n)
Ch(c) == Tok("char", c, 0)
NulToken == Ch("NUL")

\* <ctype.h> on a one-character string
Letters == {"a", "b", "c", "d", "e", "f", "g", "h", "i", "j", "k", "l", "m", "n", "o",
            "p", "q", "r", "s", "t", "u", "v", "w", "x", "y", "z"}
Digits == <<"0", "1", "2", "3", "4", "5", "6", "7", "8", "9">>
isalpha(c) == c \in Letters
isdigit(c) == \E d \in 1..10 : Digits[d] = c

\* strtod on a string of decimal digits
RECURSIVE strtod(_)
strtod(numString) ==
  IF numString = "" THEN 0
  ELSE 10 * strtod(SubSeq(numString, 1, Len(numString) - 1))
       + (CHOOSE d \in 0..9 :
            Digits[d + 1] = SubSeq(numString, Len(numString), Len(numString)))

\* the words the lexer turns into keyword tokens
Keywords == {"def", "extern", "if", "then", "else", "for", "in", "binary", "unary"}

\* AdvanceToken on one lexeme of the input text: a word, a number or a
\* single other character
AdvanceToken(lexeme) ==
  IF isalpha(SubSeq(lexeme, 1, 1))
    THEN IF lexeme \in Keywords THEN Tok(lexeme, "", 0) ELSE Id(lexeme)
  ELSE IF isdigit(SubSeq(lexeme, 1, 1)) THEN Num(strtod(lexeme))
  ELSE Ch(lexeme)

\* isascii(): true exactly of the raw-character tokens (0..127); every
\* keyword, identifier, number and end-of-input tag is negative.
isascii(tok) == tok.t = "char"

Min(a, b) == IF a < b THEN a ELSE b

TokAt(p) ==
  IF p = 0 THEN NulToken
  ELSE IF p <= Len(input) THEN input[p] ELSE tok_eof

-----------------------------------------------------------------------------
(* Parser state: p = tokens handed out (currentToken = TokAt(p)), ops = the *)
(* operator table (precedence lookups insert), diag = messages logged.     *)

currentToken(ps) == TokAt(ps.p)

\* AdvanceToken never eats end-of-input: it keeps returning tok_eof.
GetNextToken(ps) == [ps EXCEPT !.p = Min(ps.p + 1, Len(input) + 1)]

NullAST == [k |-> "null"]
Ok(ast, ps) == [ok |-> TRUE, ast |-> ast, ps |-> ps]
Failed(ps) == [ok |-> FALSE, ast |-> NullAST, ps |-> ps]
LogError(ps, str) == Failed([ps EXCEPT !.diag = Append(@, "Parser error: " \o str)])

NumberExprAST(v) == [k |-> "Number", Value |-> v]
VariableExprAST(name) == [k |-> "Variable", Name |-> name]
UnaryExprAST(op, operand) == [k |-> "Unary", Opcode |-> op, Operand |-> operand]
BinaryExprAST(op, l, r) == [k |-> "Binary", Op |-> op, Left |-> l, Right |-> r]
VarExprAST(names, body) == [k |-> "Var", VarNames |-> names, Body |-> body]
IfExprAST(c, t, e) == [k |-> "If", Cond |-> c, Then |-> t, Else |-> e]
ForExprAST(v, s, e, hasStep, step, body) ==
  [k |-> "For", VarName |-> v, Start |-> s, End |-> e, HasStep |-> hasStep,
   Step |-> step, Body |-> body]
CallExprAST(callee, args) == [k |-> "Call", Callee |-> callee, Args |-> args]
PrototypeAST(name, args, isOp, prec) ==
  [Name |-> name, Args |-> args, IsOperator |-> isOp, Precedence |-> prec]
FunctionAST(proto, body) == [k |-> "Function", Proto |-> proto, Body |-> body]

\* the single element of a singleton set: The({e(x) : x \in {v}}) is e
\* with x bound to the value of v, v being evaluated once
The(S) == CHOOSE v \in S : TRUE

RECURSIVE ParseExpr(_), ParseUnary(_), ParsePrimary(_), ParseArgs(_, _),
          ParseBinaryOperationRhs(_, _, _), ParseVarList(_, _),
          ParseIfExpr(_), ParseForExpr(_), ParseVarExpr(_), ParseParenExpr(_),
          ParseIdentifierExpr(_), ParseProtoArgs(_, _)

ParseNumberExpr(ps) == Ok(NumberExprAST(currentToken(ps).n), GetNextToken(ps))

ParseParenExpr(ps) ==
  The({ IF ~innerExpr.ok THEN innerExpr
        ELSE IF currentToken(innerExpr.ps) # Ch(")")
          THEN LogError(innerExpr.ps, "Expected ')'.")
        ELSE Ok(innerExpr.ast, GetNextToken(innerExpr.ps))
      : innerExpr \in {ParseExpr(GetNextToken(ps))} })

\* the while(1) loop of ParseIdentifierExpr; ast of the result is the
\* argument sequence
ParseArgs(ps, args) ==
  The({ IF ~arg.ok THEN arg
        ELSE IF currentToken(arg.ps) = Ch(")") THEN Ok(Append(args, arg.ast), arg.ps)
        ELSE IF currentToken(arg.ps) # Ch(",")
          THEN LogError(arg.ps, "Expected ')' or ',' in argument list.")
        ELSE ParseArgs(GetNextToken(arg.ps), Append(args, arg.ast))
      : arg \in {ParseExpr(ps)} })

ParseIdentifierExpr(ps) ==
  The({ IF currentToken(ps1) # Ch("(") THEN Ok(VariableExprAST(currentToken(ps).s), ps1)
        ELSE IF currentToken(GetNextToken(ps1)) = Ch(")")
          THEN Ok(CallExprAST(currentToken(ps).s, <<>>), GetNextToken(GetNextToken(ps1)))
        ELSE The({ IF ~a.ok THEN a
                   ELSE Ok(CallExprAST(currentToken(ps).s, a.ast), GetNextToken(a.ps))
                 : a \in {ParseArgs(GetNextToken(ps1), <<>>)} })
      : ps1 \in {GetNextToken(ps)} })

\* the while(1) loop of ParseVarExpr, entered with an identifier current
ParseVarList(ps, VarNames) ==
  The({ The({ IF ~Init0.ok THEN Init0
              ELSE The({ IF currentToken(Init0.ps) # Ch(",") THEN Ok(names2, Init0.ps)
                         ELSE IF currentToken(GetNextToken(Init0.ps)).t # "identifier"
                           THEN LogError(GetNextToken(Init0.ps),
                                         "expected identifier list after var")
                         ELSE ParseVarList(GetNextToken(Init0.ps), names2)
                       : names2 \in {Append(VarNames,
                            [name |-> currentToken(ps).s,
                             hasInit |-> currentToken(ps1) = Ch("="),
                             init |-> Init0.ast])} })
            : Init0 \in {IF currentToken(ps1) = Ch("=") THEN ParseExpr(GetNextToken(ps1))
                         ELSE Ok(NullAST, ps1)} })
      : ps1 \in {GetNextToken(ps)} })

ParseVarExpr(ps) ==
  The({ IF currentToken(ps1).t # "identifier"
          THEN LogError(ps1, "expected identifier after var")
        ELSE The({ IF ~l.ok THEN l
                   ELSE IF currentToken(l.ps) # tok_in
                     THEN LogError(l.ps, "expected 'in' keyword after 'var'")
                   ELSE The({ IF ~Body.ok THEN Body
                              ELSE Ok(VarExprAST(l.ast, Body.ast), Body.ps)
                            : Body \in {ParseExpr(GetNextToken(l.ps))} })
                 : l \in {ParseVarList(ps1, <<>>)} })
      : ps1 \in {GetNextToken(ps)} })

ParsePrimary(ps) ==
  The({ CASE tok.t = "identifier" -> ParseIdentifierExpr(ps)
          [] tok.t = "number" -> ParseNumberExpr(ps)
          [] tok.t = "if" -> ParseIfExpr(ps)
          [] tok.t = "for" -> ParseForExpr(ps)
          [] tok.t = "var" -> ParseVarExpr(ps)
          [] tok = Ch("(") -> ParseParenExpr(ps)
          [] OTHER -> LogError(ps, "Unknown token when expecting an expression.")
      : tok \in {currentToken(ps)} })

ParseUnary(ps) ==
  The({ IF ~isascii(tok) \/ tok = Ch("(") \/ tok = Ch(",") THEN ParsePrimary(ps)
        ELSE The({ IF operand.ok THEN Ok(UnaryExprAST(tok.s, operand.ast), operand.ps)
                   ELSE operand
                 : operand \in {ParseUnary(GetNextToken(ps))} })
      : tok \in {currentToken(ps)} })

\* binaryOpPrecedence[currentToken]: std::map::operator[] value-initialises
\* a missing entry to 0.
GetTokenPrecedence(ps) ==
  The({ IF ~isascii(tok) THEN [prec |-> -1, ps |-> ps]
        ELSE The({ [prec |-> IF ops2[tok.s] <= 0 THEN -1 ELSE ops2[tok.s],
                    ps |-> [ps EXCEPT !.ops = ops2]]
                 : ops2 \in {IF tok.s \in DOMAIN ps.ops THEN ps.ops
                             ELSE [c \in DOMAIN ps.ops \cup {tok.s} |->
                                     IF c = tok.s THEN 0 ELSE ps.ops[c]]} })
      : tok \in {currentToken(ps)} })

\* threshold handed to the recursive call that absorbs a tighter operator
RhsThreshold(minPrecedence, currentPrecedence) == minPrecedence + 1

ParseBinaryOperationRhs(minPrecedence, lhs, ps) ==
  The({ IF cur.prec < minPrecedence THEN Ok(lhs, cur.ps)
        ELSE The({ IF ~rhs.ok THEN rhs
          ELSE The({ The({ IF ~rhs2.ok THEN rhs2
                           ELSE ParseBinaryOperationRhs(minPrecedence,
                                  BinaryExprAST(currentToken(cur.ps).s, lhs, rhs2.ast),
                                  rhs2.ps)
                         : rhs2 \in {IF cur.prec < nxt.prec
                                       THEN ParseBinaryOperationRhs(
                                              RhsThreshold(minPrecedence, cur.prec),
                                              rhs.ast, nxt.ps)
                                     ELSE Ok(rhs.ast, nxt.ps)} })
                   : nxt \in {GetTokenPrecedence(rhs.ps)} })
          : rhs \in {ParseUnary(GetNextToken(cur.ps))} })
      : cur \in {GetTokenPrecedence(ps)} })

ParseExpr(ps) ==
  The({ IF ~lhs.ok THEN lhs ELSE ParseBinaryOperationRhs(0, lhs.ast, lhs.ps)
      : lhs \in {ParseUnary(ps)} })

ParseIfExpr(ps) ==
  The({ IF ~cond.ok THEN cond
        ELSE IF currentToken(cond.ps) # tok_then THEN LogError(cond.ps, "expected then")
        ELSE The({ IF ~thenExpr.ok THEN thenExpr
          ELSE IF currentToken(thenExpr.ps) # tok_else
            THEN LogError(thenExpr.ps, "expected else")
          ELSE The({ IF ~elseExpr.ok THEN elseExpr
                     ELSE Ok(IfExprAST(cond.ast, thenExpr.ast, elseExpr.ast), elseExpr.ps)
                   : elseExpr \in {ParseExpr(GetNextToken(thenExpr.ps))} })
          : thenExpr \in {ParseExpr(GetNextToken(cond.ps))} })
      : cond \in {ParseExpr(GetNextToken(ps))} })

\* ParseForExpr from the optional step on
ParseForTail(varName, initialVal, endValue) ==
  The({ IF ~increment.ok THEN increment
        ELSE IF currentToken(increment.ps) # tok_in
          THEN LogError(increment.ps, "expected 'in' after for")
        ELSE The({ IF ~body.ok THEN body
                   ELSE Ok(ForExprAST(varName, initialVal.ast, endValue.ast,
                                      currentToken(endValue.ps) = Ch(","),
                                      increment.ast, body.ast), body.ps)
                 : body \in {ParseExpr(GetNextToken(increment.ps))} })
      : increment \in {IF currentToken(endValue.ps) = Ch(",")
                         THEN ParseExpr(GetNextToken(endValue.ps))
                       ELSE Ok(NullAST, endValue.ps)} })

ParseForExpr(ps) ==
  The({ IF currentToken(ps1).t # "identifier"
          THEN LogError(ps1, "expected identifier after for")
        ELSE IF currentToken(GetNextToken(ps1)) # Ch("=")
          THEN LogError(GetNextToken(ps1), "expected '=' after for")
        ELSE The({ IF ~initialVal.ok THEN initialVal
          ELSE IF currentToken(initialVal.ps) # Ch(",")
            THEN LogError(initialVal.ps, "expected ',' after for initial value")
          ELSE The({ IF ~endValue.ok THEN endValue
                     ELSE ParseForTail(currentToken(ps1).s, initialVal, endValue)
                   : endValue \in {ParseExpr(GetNextToken(initialVal.ps))} })
          : initialVal \in {ParseExpr(GetNextToken(GetNextToken(ps1)))} })
      : ps1 \in {GetNextToken(ps)} })

\* while (GetNextToken() == tok_identifier) argNames.push_back(...)
ParseProtoArgs(ps, argNames) ==
  The({ IF currentToken(ps1).t = "identifier"
          THEN ParseProtoArgs(ps1, Append(argNames, currentToken(ps1).s))
        ELSE Ok(argNames, ps1)
      : ps1 \in {GetNextToken(ps)} })

\* ParseBinaryHead without the upper limit on the precedence
ParseBinaryHeadNoUpperLimit(ps1) ==
  The({ IF num.t = "number"
          THEN IF num.n < 1
                 THEN LogError(GetNextToken(ps1), "Invalid precedence: must be 1..100")
               ELSE Ok([name |-> "binary" \o currentToken(ps1).s, kind |-> 2,
                        binaryPrecedence |-> num.n],
                       GetNextToken(GetNextToken(ps1)))
        ELSE Ok([name |-> "binary" \o currentToken(ps1).s, kind |-> 2,
                 binaryPrecedence |-> 30], GetNextToken(ps1))
      : num \in {currentToken(GetNextToken(ps1))} })

\* the binary case of the switch of ParsePrototype, the operator current
ParseBinaryHead(ps1) ==
  The({ IF num.t = "number"
          THEN IF num.n < 1 \/ num.n > 100
                 THEN LogError(GetNextToken(ps1), "Invalid precedence: must be 1..100")
               ELSE Ok([name |-> "binary" \o currentToken(ps1).s, kind |-> 2,
                        binaryPrecedence |-> num.n],
                       GetNextToken(GetNextToken(ps1)))
        ELSE Ok([name |-> "binary" \o currentToken(ps1).s, kind |-> 2,
                 binaryPrecedence |-> 30], GetNextToken(ps1))
      : num \in {currentToken(GetNextToken(ps1))} })

\* the switch of ParsePrototype: name, kind and precedence, or a failure
ParsePrototypeHead(ps) ==
  The({ CASE tok.t = "identifier" ->
               Ok([name |-> tok.s, kind |-> 0, binaryPrecedence |-> 30], GetNextToken(ps))
          [] tok.t = "unary" ->
               IF ~isascii(currentToken(GetNextToken(ps)))
                 THEN LogError(GetNextToken(ps), "Expected unary operator")
               ELSE Ok([name |-> "unary" \o currentToken(GetNextToken(ps)).s, kind |-> 1,
                        binaryPrecedence |-> 30], GetNextToken(GetNextToken(ps)))
          [] tok.t = "binary" ->
               IF ~isascii(currentToken(GetNextToken(ps)))
                 THEN LogError(GetNextToken(ps), "Expected binary operator")
               ELSE ParseBinaryHead(GetNextToken(ps))
          [] OTHER -> LogError(ps, "Expected function name in prototype")
      : tok \in {currentToken(ps)} })

\* ParsePrototype without the check of the operand count
ParsePrototypeAnyArity(ps) ==
  The({ IF ~h.ok THEN h
        ELSE IF currentToken(h.ps) # Ch("(") THEN LogError(h.ps, "Expected '(' in prototype")
        ELSE The({ IF currentToken(a.ps) # Ch(")")
                     THEN LogError(a.ps, "Expected ')' in prototype")
                   ELSE Ok(PrototypeAST(h.ast.name, a.ast, h.ast.kind # 0,
                                        h.ast.binaryPrecedence), GetNextToken(a.ps))
                 : a \in {ParseProtoArgs(h.ps, <<>>)} })
      : h \in {ParsePrototypeHead(ps)} })

ParsePrototype(ps) ==
  The({ IF ~h.ok THEN h
        ELSE IF currentToken(h.ps) # Ch("(") THEN LogError(h.ps, "Expected '(' in prototype")
        ELSE The({ IF currentToken(a.ps) # Ch(")")
                     THEN LogError(a.ps, "Expected ')' in prototype")
                   ELSE IF h.ast.kind # 0 /\ Len(a.ast) # h.ast.kind
                     THEN LogError(GetNextToken(a.ps),
                                   "Invalid number of operands for operator")
                   ELSE Ok(PrototypeAST(h.ast.name, a.ast, h.ast.kind # 0,
                                        h.ast.binaryPrecedence), GetNextToken(a.ps))
                 : a \in {ParseProtoArgs(h.ps, <<>>)} })
      : h \in {ParsePrototypeHead(ps)} })

ParseFunctionDefinition(ps) ==
  The({ IF ~prototype.ok THEN prototype
        ELSE The({ IF expr.ok THEN Ok(FunctionAST(prototype.ast, expr.ast), expr.ps)
                   ELSE expr
                 : expr \in {ParseExpr(prototype.ps)} })
      : prototype \in {ParsePrototype(GetNextToken(ps))} })

ParseExtern(ps) == ParsePrototype(GetNextToken(ps))

ParseTopLevelExpr(ps) ==
  The({ IF expr.ok
          THEN Ok(FunctionAST(PrototypeAST("__anon_expr", <<>>, FALSE, 0), expr.ast),
                  expr.ps)
        ELSE expr
      : expr \in {ParseExpr(ps)} })

-----------------------------------------------------------------------------
(* Lowering.  The lowering state cs carries the globals of ast.cpp:        *)
(* module, protos (functionPrototypes), ops (binaryOpPrecedence), nv       *)
(* (namedValues), plus the slot counter, the diagnostics, the crashed flag *)
(* and two observation logs (frames, bodies).  A storage slot is a         *)
(* positive number; 0 is the null pointer.                                 *)

NullIR == [k |-> "null"]
Val(ir, cs) == [ok |-> TRUE, v |-> ir, cs |-> cs]
NoVal(cs) == [ok |-> FALSE, v |-> NullIR, cs |-> cs]
LogErrorV(cs, str) == NoVal([cs EXCEPT !.diag = Append(@, "Codegen error: " \o str)])

\* outcomes of undefined behaviour (null dereference in the IR builder)
UBOutcomes == {"crash", "garbage"}
Crash(cs) == NoVal([cs EXCEPT !.crashed = TRUE])

MapSet(m, key, v) == [x \in DOMAIN m \cup {key} |-> IF x = key THEN v ELSE m[x]]
MapErase(m, key) == [x \in DOMAIN m \ {key} |-> m[x]]
EmptyMap == [x \in {} |-> 0]

\* std::map::operator[] on namedValues: a missing key is inserted as null
NamedValuesIndex(nv, name) == IF name \in DOMAIN nv THEN nv ELSE MapSet(nv, name, 0)

\* CreateEntryBlockAlloca: a fresh storage slot
CreateEntryBlockAlloca(cs) == [cs EXCEPT !.nextAlloca = @ + 1]

\* llvm::Value::setName on a name already taken in the function's symbol
\* table appends a number
RECURSIVE UniqueArgs(_, _)
UniqueArgs(args, done) ==
  IF args = <<>> THEN done
  ELSE LET a == Head(args)
           taken == {done[i] : i \in 1..Len(done)}
           a2 == IF a \notin taken THEN a
                 ELSE IF (a \o "1") \notin taken THEN a \o "1"
                 ELSE a \o "2"
       IN UniqueArgs(Tail(args), Append(done, a2))

\* llvm::Function::Create on a name already in the module gets a suffix
UniqueFunctionName(name, mod) ==
  IF name \notin DOMAIN mod THEN name
  ELSE IF (name \o ".1") \notin DOMAIN mod THEN name \o ".1"
  ELSE name \o ".2"

PrototypeCodegen(proto, cs) ==
  LET fname == UniqueFunctionName(proto.Name, cs.module)
      fn == [Args |-> UniqueArgs(proto.Args, <<>>), HasBody |-> FALSE,
             Slots |-> <<>>, Body |-> NullIR]
  IN [found |-> TRUE, name |-> fname,
      cs |-> [cs EXCEPT !.module = MapSet(@, fname, fn)]]

getFunction(name, cs) ==
  IF name \in DOMAIN cs.module THEN [found |-> TRUE, name |-> name, cs |-> cs]
  ELSE IF name \in DOMAIN cs.protos THEN PrototypeCodegen(cs.protos[name], cs)
  ELSE [found |-> FALSE, name |-> name, cs |-> cs]

NumberCodegen(ast, cs) == Val([k |-> "const", v |-> ast.Value], cs)

VariableCodegen(ast, cs, ub) ==
  LET nv2 == NamedValuesIndex(cs.nv, ast.Name)
      value == nv2[ast.Name]
      cs1 == [cs EXCEPT !.nv = nv2]
      cs2 == IF value = 0
               THEN [cs1 EXCEPT !.diag = Append(@, "Codegen error: Unknown variable name.")]
             ELSE cs1
  IN \* no return after the diagnostic: CreateLoad is reached with the null
     \* pointer
     IF value = 0 /\ ub = "crash" THEN Crash(cs2)
     ELSE Val([k |-> "load", slot |-> value], cs2)

RECURSIVE Codegen(_, _, _), CodegenArgs(_, _, _, _), CodegenVarBindings(_, _, _, _, _)

\* UnaryCodegen with the unresolved operator as a failed assertion
UnaryCodegenAssert(ast, cs, ub) ==
  The({ IF ~operandV.ok THEN operandV
        ELSE The({ IF ~function.found THEN Crash(function.cs)
                   ELSE Val([k |-> "call", callee |-> function.name,
                             args |-> <<operandV.v>>], function.cs)
                 : function \in {getFunction("unary" \o ast.Opcode, operandV.cs)} })
      : operandV \in {Codegen(ast.Operand, cs, ub)} })

UnaryCodegen(ast, cs, ub) ==
  The({ IF ~operandV.ok THEN operandV
        ELSE The({ IF ~function.found
                     THEN LogErrorV(function.cs, "Unknown unary operator")
                   ELSE Val([k |-> "call", callee |-> function.name,
                             args |-> <<operandV.v>>], function.cs)
                 : function \in {getFunction("unary" \o ast.Opcode, operandV.cs)} })
      : operandV \in {Codegen(ast.Operand, cs, ub)} })

BuiltinBinaryOps == {"+", "-", "*", "<"}

\* BinaryCodegenOp that prefers a user-defined function to the built-in
BinaryCodegenOpUserFirst(ast, left, right, ub) ==
  IF ~left.ok \/ ~right.ok THEN NoVal(right.cs)
  ELSE The({ IF function.found
               THEN Val([k |-> "call", callee |-> function.name,
                         args |-> <<left.v, right.v>>], function.cs)
             ELSE Val([k |-> "binop", op |-> ast.Op, l |-> left.v, r |-> right.v],
                      right.cs)
           : function \in {getFunction("binary" \o ast.Op, right.cs)} })

\* BinaryExprAST::codegen once both operands are lowered
BinaryCodegenOp(ast, left, right, ub) ==
  IF ~left.ok \/ ~right.ok THEN NoVal(right.cs)
  ELSE IF ast.Op \in BuiltinBinaryOps
    THEN Val([k |-> "binop", op |-> ast.Op, l |-> left.v, r |-> right.v], right.cs)
  ELSE The({ \* assert(function && "binary operator not found!")
             IF ~function.found
               THEN IF ub = "crash"
                      THEN Crash([function.cs EXCEPT
                                    !.diag = Append(@, "Assertion failed: binary operator not found!")])
                    ELSE Val([k |-> "call", callee |-> "", args |-> <<left.v, right.v>>],
                             function.cs)
             ELSE Val([k |-> "call", callee |-> function.name,
                       args |-> <<left.v, right.v>>], function.cs)
           : function \in {getFunction("binary" \o ast.Op, right.cs)} })

BinaryCodegen(ast, cs, ub) ==
  The({ IF left.cs.crashed THEN left
        ELSE The({ IF right.cs.crashed THEN right
                   ELSE BinaryCodegenOp(ast, left, right, ub)
                 : right \in {Codegen(ast.Right, left.cs, ub)} })
      : left \in {Codegen(ast.Left, cs, ub)} })

\* IfCodegen with the arms attached to the wrong edges of the branch
IfCodegenSwapped(ast, cs, ub) ==
  The({ IF ~condInput.ok THEN condInput
        ELSE The({ IF ~thenBlockContent.ok THEN thenBlockContent
          ELSE The({ IF ~elseBlockContent.ok THEN elseBlockContent
                     ELSE Val([k |-> "if", c |-> condInput.v, t |-> elseBlockContent.v,
                               e |-> thenBlockContent.v], elseBlockContent.cs)
                   : elseBlockContent \in {Codegen(ast.Else, thenBlockContent.cs, ub)} })
          : thenBlockContent \in {Codegen(ast.Then, condInput.cs, ub)} })
      : condInput \in {Codegen(ast.Cond, cs, ub)} })

IfCodegen(ast, cs, ub) ==
  The({ IF ~condInput.ok THEN condInput
        ELSE The({ IF ~thenBlockContent.ok THEN thenBlockContent
          ELSE The({ IF ~elseBlockContent.ok THEN elseBlockContent
                     ELSE Val([k |-> "if", c |-> condInput.v, t |-> thenBlockContent.v,
                               e |-> elseBlockContent.v], elseBlockContent.cs)
                   : elseBlockContent \in {Codegen(ast.Else, thenBlockContent.cs, ub)} })
          : thenBlockContent \in {Codegen(ast.Then, condInput.cs, ub)} })
      : condInput \in {Codegen(ast.Cond, cs, ub)} })

\* order in which ForExprAST::codegen emits the parts of the loop block
ForLoopOrder == <<"body", "step", "end", "increment">>

\* ForExprAST::codegen from the loop block on; oldVal is the shadowed
\* binding, cs1 the state with the loop variable bound to alloca
ForCodegenLoop(ast, alloca, startVal, oldVal, cs1, ub) ==
  The({ IF ~body.ok THEN body
        ELSE The({ IF ~stepVal.ok THEN stepVal
          ELSE The({ IF ~endCond.ok THEN endCond
                     ELSE Val([k |-> "for", slot |-> alloca, start |-> startVal.v,
                               body |-> body.v, step |-> stepVal.v, end |-> endCond.v,
                               order |-> ForLoopOrder, result |-> 0],
                              [endCond.cs EXCEPT !.nv =
                                 IF oldVal # 0 THEN MapSet(@, ast.VarName, oldVal)
                                 ELSE MapErase(@, ast.VarName)])
                   : endCond \in {Codegen(ast.End, stepVal.cs, ub)} })
          : stepVal \in {IF ast.HasStep THEN Codegen(ast.Step, body.cs, ub)
                         ELSE Val([k |-> "const", v |-> 1], body.cs)} })
      : body \in {Codegen(ast.Body, cs1, ub)} })

ForCodegen(ast, cs, ub) ==
  The({ IF ~startVal.ok THEN startVal
        ELSE The({ ForCodegenLoop(ast, cs.nextAlloca + 1, startVal, nv1[ast.VarName],
                                  [startVal.cs EXCEPT !.nv =
                                     MapSet(nv1, ast.VarName, cs.nextAlloca + 1)], ub)
                 : nv1 \in {NamedValuesIndex(startVal.cs.nv, ast.VarName)} })
      : startVal \in {Codegen(ast.Start, CreateEntryBlockAlloca(cs), ub)} })

\* CodegenArgs that lowers every argument before it reports a failure
CodegenArgsNoStop(args, i, done, csub) ==
  IF i > Len(args)
    THEN IF \E j \in 1..Len(done) : done[j] = NullIR THEN NoVal(csub.cs)
         ELSE Val(done, csub.cs)
  ELSE The({ CodegenArgs(args, i + 1, Append(done, value.v),
                         [csub EXCEPT !.cs = value.cs])
           : value \in {Codegen(args[i], csub.cs, csub.ub)} })

\* the argument loop of CallExprAST::codegen; v of the result is the
\* sequence of lowered arguments
CodegenArgs(args, i, done, csub) ==
  IF i > Len(args) THEN Val(done, csub.cs)
  ELSE The({ IF ~value.ok THEN value
             ELSE CodegenArgs(args, i + 1, Append(done, value.v),
                              [csub EXCEPT !.cs = value.cs])
           : value \in {Codegen(args[i], csub.cs, csub.ub)} })

CallCodegen(ast, cs, ub) ==
  The({ IF ~callee.found THEN LogErrorV(callee.cs, "Unknown function referenced")
        ELSE IF Len(callee.cs.module[callee.name].Args) # Len(ast.Args)
          THEN LogErrorV(callee.cs, "Incorrect number of arguments passed")
        ELSE The({ IF ~arguments.ok THEN arguments
                   ELSE Val([k |-> "call", callee |-> callee.name,
                             args |-> arguments.v], arguments.cs)
                 : arguments \in {CodegenArgs(ast.Args, 1, <<>>,
                                              [cs |-> callee.cs, ub |-> ub])} })
      : callee \in {getFunction(ast.Callee, cs)} })

\* restore (or erase) the bindings a var block shadowed, innermost first
RECURSIVE RestoreBindings(_, _, _)
RestoreBindings(nv, names, olds) ==
  IF names = <<>> THEN nv
  ELSE RestoreBindings(IF olds[Len(olds)] # 0
                         THEN MapSet(nv, names[Len(names)], olds[Len(olds)])
                       ELSE MapErase(nv, names[Len(names)]),
                       SubSeq(names, 1, Len(names) - 1),
                       SubSeq(olds, 1, Len(olds) - 1))

\* bindings of a var block, in order: slot, initializer (default 0), store,
\* shadow.  acc = [binds, olds]
CodegenVarBindings(VarNames, i, acc, cs, ub) ==
  IF i > Len(VarNames) THEN [ok |-> TRUE, v |-> acc, cs |-> cs]
  ELSE The({ IF ~initVal.ok THEN initVal
             ELSE CodegenVarBindings(VarNames, i + 1,
                    [binds |-> Append(acc.binds,
                                 [slot |-> cs.nextAlloca + 1, init |-> initVal.v]),
                     olds |-> Append(acc.olds,
                                IF VarNames[i].name \in DOMAIN initVal.cs.nv
                                  THEN initVal.cs.nv[VarNames[i].name] ELSE 0)],
                    [initVal.cs EXCEPT !.nv = MapSet(@, VarNames[i].name,
                                                     cs.nextAlloca + 1)], ub)
           : initVal \in {IF VarNames[i].hasInit
                            THEN Codegen(VarNames[i].init, CreateEntryBlockAlloca(cs), ub)
                          ELSE Val([k |-> "const", v |-> 0],
                                   CreateEntryBlockAlloca(cs))} })

VarCodegen(ast, cs, ub) ==
  The({ IF ~bs.ok THEN bs
        ELSE The({ IF ~body.ok THEN body
          ELSE The({ Val([k |-> "var", binds |-> bs.v.binds, body |-> body.v],
                         [body.cs EXCEPT !.nv = nv2,
                            !.frames = Append(@, [before |-> cs.nv, after |-> nv2])])
                   : nv2 \in {RestoreBindings(body.cs.nv,
                                [i \in 1..Len(ast.VarNames) |-> ast.VarNames[i].name],
                                bs.v.olds)} })
          : body \in {Codegen(ast.Body, bs.cs, ub)} })
      : bs \in {CodegenVarBindings(ast.VarNames, 1, [binds |-> <<>>, olds |-> <<>>],
                                   cs, ub)} })

Codegen(ast, cs, ub) ==
  CASE ast.k = "Number" -> NumberCodegen(ast, cs)
    [] ast.k = "Variable" -> VariableCodegen(ast, cs, ub)
    [] ast.k = "Unary" -> UnaryCodegen(ast, cs, ub)
    [] ast.k = "Binary" -> BinaryCodegen(ast, cs, ub)
    [] ast.k = "If" -> IfCodegen(ast, cs, ub)
    [] ast.k = "For" -> ForCodegen(ast, cs, ub)
    [] ast.k = "Call" -> CallCodegen(ast, cs, ub)
    [] ast.k = "Var" -> VarCodegen(ast, cs, ub)

isBinaryOp(proto) == proto.IsOperator /\ Len(proto.Args) = 2
getOperatorName(proto) == SubSeq(proto.Name, Len(proto.Name), Len(proto.Name))

\* the parameter loop of FunctionAST::codegen: one slot per argument of the
\* resolved function
RECURSIVE AllocaArgs(_, _, _, _)
AllocaArgs(args, i, slots, cs) ==
  IF i > Len(args) THEN [slots |-> slots, cs |-> cs]
  ELSE AllocaArgs(args, i + 1, Append(slots, cs.nextAlloca + 1),
                  [CreateEntryBlockAlloca(cs) EXCEPT
                     !.nv = MapSet(@, args[i], cs.nextAlloca + 1)])

\* namedValues.clear() at the start of a function body
ClearNamedValues(nv) == EmptyMap

\* FunctionCodegenBody that withdraws the operator when its body fails to
\* lower
FunctionCodegenBodyUnregisters(fn, function, cs2, base, ub) ==
  The({ The({ IF returnValue.cs.crashed THEN returnValue
              ELSE IF returnValue.ok
                THEN [ok |-> TRUE, v |-> function.name,
                      cs |-> [returnValue.cs EXCEPT !.module =
                                MapSet(@, function.name,
                                       [cs2.module[function.name] EXCEPT
                                          !.HasBody = TRUE, !.Slots = a.slots,
                                          !.Body = returnValue.v])]]
              ELSE NoVal([returnValue.cs EXCEPT
                            !.module = MapErase(@, function.name),
                            !.ops = IF isBinaryOp(fn.Proto)
                                      THEN MapErase(@, getOperatorName(fn.Proto))
                                    ELSE @])
            : returnValue \in {Codegen(fn.Body,
                 [a.cs EXCEPT !.bodies = Append(@,
                    [scope |-> a.cs.nv, base |-> base, params |-> fn.Proto.Args])],
                 ub)} })
      : a \in {AllocaArgs(cs2.module[function.name].Args, 1, <<>>,
                          [cs2 EXCEPT !.nv = ClearNamedValues(@)])} })

\* FunctionCodegenBody that keeps the function in the module when its body
\* fails to lower
FunctionCodegenBodyNoErase(fn, function, cs2, base, ub) ==
  The({ The({ IF returnValue.cs.crashed THEN returnValue
              ELSE IF returnValue.ok
                THEN [ok |-> TRUE, v |-> function.name,
                      cs |-> [returnValue.cs EXCEPT !.module =
                                MapSet(@, function.name,
                                       [cs2.module[function.name] EXCEPT
                                          !.HasBody = TRUE, !.Slots = a.slots,
                                          !.Body = returnValue.v])]]
              ELSE NoVal(returnValue.cs)
            : returnValue \in {Codegen(fn.Body,
                 [a.cs EXCEPT !.bodies = Append(@,
                    [scope |-> a.cs.nv, base |-> base, params |-> fn.Proto.Args])],
                 ub)} })
      : a \in {AllocaArgs(cs2.module[function.name].Args, 1, <<>>,
                          [cs2 EXCEPT !.nv = ClearNamedValues(@)])} })

\* FunctionAST::codegen from the entry block on: function is the resolved
\* llvm::Function, cs2 the state with the operator installed
FunctionCodegenBody(fn, function, cs2, base, ub) ==
  The({ The({ IF returnValue.cs.crashed THEN returnValue
              ELSE IF returnValue.ok
                THEN [ok |-> TRUE, v |-> function.name,
                      cs |-> [returnValue.cs EXCEPT !.module =
                                MapSet(@, function.name,
                                       [cs2.module[function.name] EXCEPT
                                          !.HasBody = TRUE, !.Slots = a.slots,
                                          !.Body = returnValue.v])]]
              ELSE \* function->eraseFromParent()
                   NoVal([returnValue.cs EXCEPT !.module = MapErase(@, function.name)])
            : returnValue \in {Codegen(fn.Body,
                 [a.cs EXCEPT !.bodies = Append(@,
                    [scope |-> a.cs.nv, base |-> base, params |-> fn.Proto.Args])],
                 ub)} })
      : a \in {AllocaArgs(cs2.module[function.name].Args, 1, <<>>,
                          [cs2 EXCEPT !.nv = ClearNamedValues(@)])} })

\* FunctionCodegen that resolves the signature before the prototype is in
\* the registry
FunctionCodegenLateRegistration(fn, cs, ub) ==
  The({ IF ~function.found THEN NoVal(function.cs)
        ELSE FunctionCodegenBody(fn, function,
               [function.cs EXCEPT
                  !.protos = MapSet(@, fn.Proto.Name, fn.Proto),
                  !.ops = IF isBinaryOp(fn.Proto)
                            THEN MapSet(@, getOperatorName(fn.Proto), fn.Proto.Precedence)
                          ELSE @],
               cs.nextAlloca, ub)
      : function \in {getFunction(fn.Proto.Name, cs)} })

\* FunctionCodegen that takes the prototype out of the registry again when
\* the body fails to lower
FunctionCodegenRollback(fn, cs, ub) ==
  The({ IF ~function.found THEN NoVal(function.cs)
        ELSE The({ IF r.ok \/ r.cs.crashed THEN r
                   ELSE [r EXCEPT !.cs.protos = cs.protos]
                 : r \in {FunctionCodegenBody(fn, function,
                            IF isBinaryOp(fn.Proto)
                              THEN [function.cs EXCEPT
                                      !.ops = MapSet(@, getOperatorName(fn.Proto),
                                                     fn.Proto.Precedence)]
                            ELSE function.cs,
                            cs.nextAlloca, ub)} })
      : function \in {getFunction(fn.Proto.Name,
                        [cs EXCEPT !.protos = MapSet(@, fn.Proto.Name, fn.Proto)])} })

FunctionCodegen(fn, cs, ub) ==
  The({ IF ~function.found THEN NoVal(function.cs)
        ELSE FunctionCodegenBody(fn, function,
               IF isBinaryOp(fn.Proto)
                 THEN [function.cs EXCEPT !.ops = MapSet(@, getOperatorName(fn.Proto),
                                                         fn.Proto.Precedence)]
               ELSE function.cs,
               cs.nextAlloca, ub)
      : function \in {getFunction(fn.Proto.Name,
                        [cs EXCEPT !.protos = MapSet(@, fn.Proto.Name, fn.Proto)])} })

-----------------------------------------------------------------------------
(* Execution engine: runs lowered code.  rt = [fuel, trace, status, jit];  *)
(* trace records the calls that reach functions no module defines (host    *)
(* symbols such as putchard, which return 0).                              *)

\* KaleidoscopeJIT::findSymbol: the most recently added module that
\* defines the name
RECURSIVE findSymbol(_, _)
findSymbol(mods, name) ==
  IF mods = <<>> THEN [found |-> FALSE]
  ELSE IF name \in DOMAIN mods[Len(mods)] /\ mods[Len(mods)][name].HasBody
    THEN [found |-> TRUE, fn |-> mods[Len(mods)][name]]
  ELSE findSymbol(SubSeq(mods, 1, Len(mods) - 1), name)

Res(val, mem, rt) == [val |-> val, mem |-> mem, rt |-> rt]
Stop(mem, rt, status) == Res(0, mem, [rt EXCEPT !.status = status])

RECURSIVE Exec(_, _, _), ExecArgs(_, _, _, _, _), ExecLoop(_, _, _),
          ExecLoopParts(_, _, _, _, _), ExecBinds(_, _, _, _), ExecFunction(_, _, _)

\* a call: the arguments are stored to the parameter slots, then the body
ExecFunction(fn, argv, rt) ==
  IF rt.fuel = 0 THEN Stop(EmptyMap, rt, "diverged")
  ELSE Exec(fn.Body,
            [sl \in {fn.Slots[i] : i \in 1..Min(Len(fn.Slots), Len(argv))} |->
               argv[CHOOSE i \in 1..Min(Len(fn.Slots), Len(argv)) : fn.Slots[i] = sl]],
            [rt EXCEPT !.fuel = @ - 1])

ExecArgs(args, i, done, mem, rt) ==
  IF i > Len(args) THEN Res(done, mem, rt)
  ELSE The({ IF a.rt.status # "ok" THEN a
             ELSE ExecArgs(args, i + 1, Append(done, a.val), a.mem, a.rt)
           : a \in {Exec(args[i], mem, rt)} })

\* one pass over the loop block in emitted order; acc = [step, end]
ExecLoopParts(ir, i, acc, mem, rt) ==
  IF i > Len(ir.order) THEN Res(acc, mem, rt)
  ELSE IF ir.order[i] = "increment"
    THEN ExecLoopParts(ir, i + 1, acc, [mem EXCEPT ![ir.slot] = @ + acc.step], rt)
  ELSE The({ IF r.rt.status # "ok" THEN r
             ELSE ExecLoopParts(ir, i + 1,
                    IF ir.order[i] = "step" THEN [acc EXCEPT !.step = r.val]
                    ELSE IF ir.order[i] = "end" THEN [acc EXCEPT !.end = r.val]
                    ELSE acc, r.mem, r.rt)
           : r \in {Exec(IF ir.order[i] = "body" THEN ir.body
                         ELSE IF ir.order[i] = "step" THEN ir.step ELSE ir.end,
                         mem, rt)} })

\* ExecLoop that tests the end condition before it enters the loop block
ExecLoopTestFirst(ir, mem, rt) ==
  IF rt.fuel = 0 THEN Stop(mem, rt, "diverged")
  ELSE The({ IF c.rt.status # "ok" THEN c
             ELSE IF c.val = 0 THEN Res(ir.result, c.mem, c.rt)
             ELSE The({ IF r.rt.status # "ok" THEN r
                        ELSE ExecLoop(ir, r.mem, r.rt)
                      : r \in {ExecLoopParts(ir, 1, [step |-> 0, end |-> 0], c.mem, c.rt)} })
           : c \in {Exec(ir.end, mem, [rt EXCEPT !.fuel = @ - 1])} })

\* br endcond, loop, afterloop
ExecLoop(ir, mem, rt) ==
  IF rt.fuel = 0 THEN Stop(mem, rt, "diverged")
  ELSE The({ IF r.rt.status # "ok" THEN r
             ELSE IF r.val.end # 0 THEN ExecLoop(ir, r.mem, r.rt)
             ELSE Res(ir.result, r.mem, r.rt)
           : r \in {ExecLoopParts(ir, 1, [step |-> 0, end |-> 0], mem,
                                  [rt EXCEPT !.fuel = @ - 1])} })

ExecBinds(binds, i, mem, rt) ==
  IF i > Len(binds) THEN Res(0, mem, rt)
  ELSE The({ IF r.rt.status # "ok" THEN r
             ELSE ExecBinds(binds, i + 1, MapSet(r.mem, binds[i].slot, r.val), r.rt)
           : r \in {Exec(binds[i].init, mem, rt)} })

ExecBinop(op, l, r) ==
  CASE op = "+" -> l + r
    [] op = "-" -> l - r
    [] op = "*" -> l * r
    [] op = "<" -> IF l < r THEN 1 ELSE 0

\* a call instruction whose arguments a are evaluated: a function some
\* module in the engine defines is run, any other symbol is a host function
ExecCall(ir, a) ==
  IF ir.callee = "" THEN Stop(a.mem, a.rt, "trap")
  ELSE The({ IF sym.found
               THEN The({ Res(r.val, a.mem, r.rt)
                        : r \in {ExecFunction(sym.fn, a.val, a.rt)} })
             ELSE Res(0, a.mem,
                      [a.rt EXCEPT !.trace = Append(@, [f |-> ir.callee, args |-> a.val])])
           : sym \in {findSymbol(a.rt.jit, ir.callee)} })

Exec(ir, mem, rt) ==
  CASE ir.k = "const" -> Res(ir.v, mem, rt)
    [] ir.k = "load" ->
         IF ir.slot \in DOMAIN mem THEN Res(mem[ir.slot], mem, rt)
         ELSE Stop(mem, rt, "trap")
    [] ir.k = "binop" ->
         The({ IF l.rt.status # "ok" THEN l
               ELSE The({ IF r.rt.status # "ok" THEN r
                          ELSE Res(ExecBinop(ir.op, l.val, r.val), r.mem, r.rt)
                        : r \in {Exec(ir.r, l.mem, l.rt)} })
             : l \in {Exec(ir.l, mem, rt)} })
    [] ir.k = "call" ->
         The({ IF a.rt.status # "ok" THEN a ELSE ExecCall(ir, a)
             : a \in {ExecArgs(ir.args, 1, <<>>, mem, rt)} })
    [] ir.k = "if" ->
         The({ IF c.rt.status # "ok" THEN c
               ELSE IF c.val # 0 THEN Exec(ir.t, c.mem, c.rt)
               ELSE Exec(ir.e, c.mem, c.rt)
             : c \in {Exec(ir.c, mem, rt)} })
    [] ir.k = "for" ->
         The({ IF s.rt.status # "ok" THEN s
               ELSE ExecLoop(ir, MapSet(s.mem, ir.slot, s.val), s.rt)
             : s \in {Exec(ir.start, mem, rt)} })
    [] ir.k = "var" ->
         The({ IF b.rt.status # "ok" THEN b ELSE Exec(ir.body, b.mem, b.rt)
             : b \in {ExecBinds(ir.binds, 1, mem, rt)} })

-----------------------------------------------------------------------------
(* Driver *)

\* AddBinaryOp('<', 10) ... AddBinaryOp('*', 40) in main
BuiltinPrecedence == [c \in BuiltinBinaryOps |->
  CASE c = "<" -> 10 [] c = "+" -> 20 [] c = "-" -> 20 [] c = "*" -> 40]

\* parser and lowering states as the handlers find them; the main loop has
\* just called GetNextToken()
StartPs == [p |-> Min(pos + 1, Len(input) + 1), ops |-> binaryOpPrecedence, diag |-> <<>>]
StartCs(ps) == [module |-> module, protos |-> functionPrototypes, ops |-> ps.ops,
                nv |-> namedValues, nextAlloca |-> nextAlloca, diag |-> ps.diag,
                crashed |-> FALSE, frames |-> <<>>, bodies |-> <<>>]

NoRun == [val |-> 0, status |-> "none", trace |-> <<>>]

Observe(kind, parse, lowered, cs, run) ==
  [kind |-> kind, dispatch |-> StartPs.p, ops0 |-> binaryOpPrecedence,
   nv0 |-> namedValues, alloca0 |-> nextAlloca, jit0 |-> jit,
   parsed |-> parse.ok, ast |-> parse.ast, parseEnd |-> parse.ps.p,
   lowered |-> lowered, frames |-> cs.frames, bodies |-> cs.bodies, run |-> run]

\* effect of a handler whose parse failed: skip one token
ParseFailure(kind, r) ==
  /\ pos' = GetNextToken(r.ps).p
  /\ binaryOpPrecedence' = r.ps.ops
  /\ diag' = r.ps.diag
  /\ pc' = "loop"
  /\ last' = Observe(kind, r, FALSE, StartCs(r.ps), NoRun)
  /\ UNCHANGED <<functionPrototypes, module, namedValues, jit, nextAlloca>>

\* the globals after a lowering call
Lowered(cs) ==
  /\ binaryOpPrecedence' = cs.ops
  /\ functionPrototypes' = cs.protos
  /\ namedValues' = cs.nv
  /\ nextAlloca' = cs.nextAlloca
  /\ diag' = cs.diag

\* the module of a lowered anonymous expression is handed to the engine
\* and __anon_expr is called
RunAnonExpr(jit1) ==
  The({ [val |-> r.val, status |-> r.rt.status, trace |-> r.rt.trace]
      : r \in {ExecFunction(findSymbol(jit1, "__anon_expr").fn, <<>>,
                 [fuel |-> MaxFuel, trace |-> <<>>, status |-> "ok", jit |-> jit1])} })

\* the execution engine's add unit: the unit is held under the handle that
\* is its position
addModule(mods, M) == Append(mods, M)

\* the execution engine's remove unit by handle
removeModule(mods, K) ==
  [i \in 1..(Len(mods) - 1) |-> IF i < K THEN mods[i] ELSE mods[i + 1]]

\* HandleTopLevelExpression that leaves the unit of the expression in the
\* engine
AnonExprEngineKeepsUnit(mods, M, run) == addModule(mods, M)

\* the engine after HandleTopLevelExpression: the unit is added, the
\* expression is called, and when the call returns the unit is removed by
\* the handle addModule gave
AnonExprEngine(mods, M, run) ==
  IF run.status = "ok" THEN removeModule(addModule(mods, M), Len(mods) + 1)
  ELSE addModule(mods, M)

HandleDefinition ==
  /\ pc = "loop"
  /\ UNCHANGED input
  /\ currentToken(StartPs) = tok_def
  /\ \E ast \in {ParseFunctionDefinition(StartPs)} :
       IF ast.ok
         THEN \E ub \in UBOutcomes :
              \E ir \in {FunctionCodegen(ast.ast, StartCs(ast.ps), ub)} :
                /\ pos' = ast.ps.p
                /\ Lowered(ir.cs)
                /\ last' = Observe("def", ast, ir.ok, ir.cs, NoRun)
                /\ IF ir.cs.crashed
                     THEN pc' = "aborted" /\ module' = ir.cs.module /\ jit' = jit
                   ELSE IF ir.ok
                     THEN \* jit->addModule(std::move(module)); fresh module
                          pc' = "loop" /\ jit' = addModule(jit, ir.cs.module)
                          /\ module' = EmptyMap
                   ELSE pc' = "loop" /\ module' = ir.cs.module /\ jit' = jit
       ELSE ParseFailure("def", ast)

HandleExtern ==
  /\ pc = "loop"
  /\ UNCHANGED input
  /\ currentToken(StartPs) = tok_extern
  /\ \E ast \in {ParseExtern(StartPs)} :
       IF ast.ok
         THEN \E ir \in {PrototypeCodegen(ast.ast, StartCs(ast.ps))} :
              \E cs \in {[ir.cs EXCEPT !.protos = MapSet(@, ast.ast.Name, ast.ast)]} :
                /\ pos' = ast.ps.p
                /\ Lowered(cs)
                /\ module' = cs.module
                /\ pc' = "loop"
                /\ last' = Observe("extern", ast, TRUE, cs, NoRun)
                /\ UNCHANGED jit
       ELSE ParseFailure("extern", ast)

HandleTopLevelExpression ==
  /\ pc = "loop"
  /\ UNCHANGED input
  /\ currentToken(StartPs) \notin {tok_eof, Ch(";"), tok_def, tok_extern}
  /\ \E ast \in {ParseTopLevelExpr(StartPs)} :
       IF ast.ok
         THEN \E ub \in UBOutcomes :
              \E ir \in {FunctionCodegen(ast.ast, StartCs(ast.ps), ub)} :
              \E run \in {IF ~ir.cs.crashed /\ ir.ok
                            THEN RunAnonExpr(addModule(jit, ir.cs.module))
                          ELSE NoRun} :
                /\ pos' = ast.ps.p
                /\ Lowered(ir.cs)
                /\ last' = Observe("expr", ast, ir.ok, ir.cs, run)
                /\ IF ir.cs.crashed
                     THEN pc' = "aborted" /\ module' = ir.cs.module /\ jit' = jit
                   ELSE IF ir.ok
                     THEN \* addModule, fresh module, run, removeModule
                          /\ module' = EmptyMap
                          /\ jit' = AnonExprEngine(jit, ir.cs.module, run)
                          /\ pc' = CASE run.status = "ok" -> "loop"
                                     [] run.status = "diverged" -> "hung"
                                     [] OTHER -> "aborted"
                   ELSE pc' = "loop" /\ module' = ir.cs.module /\ jit' = jit
       ELSE ParseFailure("expr", ast)

\* case tok_eof: case ';': return 0;
MainReturn ==
  /\ pc = "loop"
  /\ UNCHANGED input
  /\ currentToken(StartPs) \in {tok_eof, Ch(";")}
  /\ pos' = StartPs.p
  /\ pc' = "returned"
  /\ last' = Observe("return", Failed(StartPs), FALSE, StartCs(StartPs), NoRun)
  /\ diag' = <<>>
  /\ UNCHANGED <<binaryOpPrecedence, functionPrototypes, module, namedValues, jit,
                 nextAlloca>>

Next == HandleDefinition \/ HandleExtern \/ HandleTopLevelExpression \/ MainReturn

InitGlobals ==
  /\ pos = 0
  /\ pc = "loop"
  /\ binaryOpPrecedence = BuiltinPrecedence
  /\ functionPrototypes = EmptyMap
  /\ module = EmptyMap
  /\ namedValues = EmptyMap
  /\ jit = <<>>
  /\ nextAlloca = 0
  /\ diag = <<>>
  /\ last = [kind |-> "none", dispatch |-> 0, ops0 |-> BuiltinPrecedence,
             nv0 |-> EmptyMap, alloca0 |-> 0, jit0 |-> <<>>, parsed |-> FALSE,
             ast |-> NullAST,
             parseEnd |-> 0, lowered |-> FALSE, frames |-> <<>>, bodies |-> <<>>,
             run |-> NoRun]

-----------------------------------------------------------------------------
(* Inputs: source texts, as sequences of lexemes, and their token         *)
(* sequences                                                               *)

SeqsUpTo(S, n) == UNION {[1..m -> S] : m \in 0..n}

RECURSIVE Flatten(_)
Flatten(ss) == IF ss = <<>> THEN <<>> ELSE Head(ss) \o Flatten(Tail(ss))

\* the token sequence AdvanceToken produces for a text
Lex(text) == [i \in 1..Len(text) |-> AdvanceToken(text[i])]

\* decimal numeral of n
RECURSIVE NumStr(_)
NumStr(n) == IF n < 10 THEN Digits[n + 1] ELSE NumStr(n \div 10) \o Digits[(n % 10) + 1]

\* operand_1 op_1 operand_2 ... : the operands are the numbers 1, 2, 3, ...
ChainText(os) ==
  <<NumStr(1)>> \o Flatten([i \in 1..Len(os) |-> <<os[i], NumStr(i + 1)>>])
ChainTokens(os) == Lex(ChainText(os))

ChainInputs == {ChainTokens(os) : os \in SeqsUpTo(BuiltinBinaryOps, MaxChain - 1)}

\* def binary S p (a b) a+b ;
UserOp == "|"
UserPrecedences == {5, 20, 30, 50}
DefBinary(S, p) ==
  Lex(<<"def", "binary", S, NumStr(p), "(", "a", "b", ")", "a", "+", "b", ";">>)
UserChainInputs ==
  {DefBinary(UserOp, p) \o ChainTokens(os) :
     p \in UserPrecedences, os \in SeqsUpTo({UserOp, "<", "+", "*"}, MaxChain - 1)}

\* def binary S p (a b) u(a); 1 S 2: the body calls a function nothing
\* declares, so the definition parses and fails to lower
FailingOperator(S, p) ==
  Lex(<<"def", "binary", S, NumStr(p), "(", "a", "b", ")", "u", "(", "a", ")", ";",
        "1", S, "2">>)
FailingOperatorInputs ==
  {FailingOperator(S, p) : S \in {UserOp, "+"}, p \in UserPrecedences}

\* extern f(params); def f(x) x: a declaration of the name is in the
\* current module when the definition is lowered
ExternThenDef(params) ==
  Lex(<<"extern", "f", "(">> \o params \o <<")", ";", "def", "f", "(", "x", ")", "x">>)
ExternThenDefInputs ==
  {ExternThenDef(params) : params \in {<<>>, <<"x">>, <<"a">>, <<"a", "b">>, <<"x", "a">>}}

\* extern f(x); for i = s, i < e, 1 in f(i)
LoopInput(s, e) ==
  Lex(<<"extern", "f", "(", "x", ")", ";",
        "for", "i", "=", NumStr(s), ",", "i", "<", NumStr(e), ",", "1", "in",
        "f", "(", "i", ")">>)
LoopInputs == {LoopInput(s, s + d) : s \in 0..MaxStart, d \in 1..MaxSpan}

\* def binary S p (a b) 7; 2 S 3 for a built-in symbol S
BuiltinRedef(S, p) ==
  Lex(<<"def", "binary", S, NumStr(p), "(", "a", "b", ")", "7", ";", "2", S, "3">>)
BuiltinRedefInputs ==
  {BuiltinRedef(S, p) : S \in {"+", "-", "*", "<"}, p \in UserPrecedences}

\* the same loop with an end condition that is false for the start value
FalseStartLoopInputs == {LoopInput(s, e) : s \in 0..MaxStart, e \in 0..MaxStart}
                          \ LoopInputs

\* operator prototypes: def / extern, unary / binary, with and without a
\* precedence, with 0..MaxParams parameters
EdgePrecedences == {0, 1, 2, 99, 100, 101, 150}
ParamNames == <<"a", "b", "c", "d", "e", "g">>
OperatorProto(kind, prec, n) ==
  <<kind, IF kind = "unary" THEN "!" ELSE UserOp>> \o prec \o <<"(">>
    \o SubSeq(ParamNames, 1, n) \o <<")">>
OperatorProtoInputs ==
  UNION {{Lex(<<"def">> \o OperatorProto(kind, prec, n) \o <<"1">>),
          Lex(<<"extern">> \o OperatorProto(kind, prec, n))} :
           kind \in {"unary", "binary"},
           prec \in {<<>>} \cup {<<NumStr(p)>> : p \in EdgePrecedences},
           n \in 0..MaxParams}

\* def h(n parameters) u(1); h(m arguments): the definition fails in its
\* body, then the name is called
Ones(m) == Flatten([i \in 1..m |-> IF i = 1 THEN <<"1">> ELSE <<",", "1">>])
FailedDefThenCall(n, m) ==
  Lex(<<"def", "h", "(">> \o SubSeq(ParamNames, 1, n)
        \o <<")", "u", "(", "1", ")", ";", "h", "(">> \o Ones(m) \o <<")">>)
FailedDefThenCallInputs ==
  {FailedDefThenCall(n, m) : n, m \in 0..MaxParams}

\* def f(n parameters) f(m arguments): the body calls the function that is
\* being defined
RecursiveDef(n, m) ==
  Lex(<<"def", "f", "(">> \o SubSeq(ParamNames, 1, n)
        \o <<")", "f", "(">> \o Ones(m) \o <<")">>)
RecursiveDefInputs ==
  {RecursiveDef(n, m) : n, m \in 0..MaxParams}

\* extern f(a b); extern g(a); f(arg, ...) with 0..MaxArgs arguments, each a
\* number, a call of g, a call of the undeclared u, or g called with no
\* argument
ArgTexts == {<<"1">>, <<"g", "(", "1", ")">>, <<"u", "(", "1", ")">>, <<"g", "(", ")">>}
CallText(args) ==
  <<"f", "(">> \o Flatten([i \in 1..Len(args) |->
                             IF i = 1 THEN args[i] ELSE <<",">> \o args[i]]) \o <<")">>
CallInput(args) ==
  Lex(<<"extern", "f", "(", "a", "b", ")", ";", "extern", "g", "(", "a", ")", ";">>
      \o CallText(args))
CallInputs == {CallInput(args) : args \in SeqsUpTo(ArgTexts, MaxArgs)}

\* extern f(x); if c - d then f(1)+5 else f(2)+7
IfInput(c, d) ==
  Lex(<<"extern", "f", "(", "x", ")", ";",
        "if", NumStr(c), "-", NumStr(d), "then", "f", "(", "1", ")", "+", "5",
        "else", "f", "(", "2", ")", "+", "7">>)
IfInputs == {IfInput(c, d) : c, d \in 0..MaxCond}

\* arbitrary short texts
TokenAlphabet == {"def", "extern", "f", "1", "(", ")", ";", "+"}
TokenInputs == {Lex(text) : text \in SeqsUpTo(TokenAlphabet, MaxTokens)}

\* var x = a in (var x = b in x) + x
VarShadow(a, b) ==
  Lex(<<"var", "x", "=", NumStr(a), "in", "(", "var", "x", "=", NumStr(b), "in", "x",
        ")", "+", "x">>)
VarShadowItems == {VarShadow(a, b) : a, b \in 1..MaxShadow}

\* top-level items the program inputs are assembled from
Items ==
  { Lex(<<"def", "f", "(", "x", ")", "x">>),
    Lex(<<"def", "f", "(", "x", ")", "x", "+", "1">>),
    Lex(<<"def", "h", "(", "x", ")", "g", "(", "x", ")">>),
    Lex(<<"def", "k", "(", "x", ")", "y">>),
    Lex(<<"extern", "g", "(", "a", ")">>),
    Lex(<<"g", "(", "1", ")">>),
    Lex(<<"f", "(", "2", ")">>),
    Lex(<<"g", "(", "1", ")", "+", "y">>),
    Lex(<<"y">>),
    Lex(<<"4", "+", "5">>),
    Lex(<<"for", "x", "=", "1", ",", "0", "in", "g", "(", "x", ")">>),
    Lex(<<"1", ")">>),
    Lex(<<"def", "f", "(", "1">>),
    Lex(<<"extern", "(">>)
  } \cup VarShadowItems

\* items in sequence, every one followed by ';' or none of them
Programs ==
  UNION {{Flatten([i \in 1..Len(is) |-> is[i] \o sep]) : is \in [1..n -> Items]} :
           n \in 1..MaxItems, sep \in {<<>>, Lex(<<";">>)}}

Inputs ==
  ChainInputs \cup UserChainInputs \cup LoopInputs \cup OperatorProtoInputs
    \cup CallInputs \cup IfInputs \cup TokenInputs \cup Programs
    \cup FailingOperatorInputs \cup ExternThenDefInputs \cup FailedDefThenCallInputs
    \cup RecursiveDefInputs \cup FalseStartLoopInputs
    \cup BuiltinRedefInputs

Init == InitGlobals /\ input \in Inputs

Spec == Init /\ [][Next]_vars

\* type-correctness of the driver state
TypeOK ==
  /\ pos \in 0..(Len(input) + 1)
  /\ pc \in {"loop", "returned", "aborted", "hung"}
  /\ nextAlloca \in Nat

-----------------------------------------------------------------------------
(* Reference precedence parsing of an operator chain *)

\* the tokens the last handled item was parsed from
ItemTokens == SubSeq(input, last.dispatch, last.parseEnd - 1)

\* number (op number)* with every op registered in the table
IsChain(toks, ops) ==
  /\ Len(toks) % 2 = 1
  /\ \A i \in 1..Len(toks) :
       IF i % 2 = 1 THEN toks[i].t = "number"
       ELSE /\ toks[i].t = "char"
            /\ toks[i].s \in DOMAIN ops
            /\ ops[toks[i].s] > 0

\* the root of a chain is its rightmost operator of lowest precedence
RECURSIVE RefTree(_, _)
RefTree(toks, ops) ==
  IF Len(toks) = 1 THEN NumberExprAST(toks[1].n)
  ELSE LET opsAt == {i \in 1..Len(toks) : i % 2 = 0}
           lowest == {i \in opsAt : \A j \in opsAt : ops[toks[i].s] <= ops[toks[j].s]}
           root == CHOOSE i \in lowest : \A j \in lowest : j <= i
       IN BinaryExprAST(toks[root].s,
                        RefTree(SubSeq(toks, 1, root - 1), ops),
                        RefTree(SubSeq(toks, root + 1, Len(toks)), ops))

ChainParsed(ops) ==
  /\ last.kind = "expr"
  /\ last.parsed
  /\ IsChain(ItemTokens, ops)

-----------------------------------------------------------------------------
(* C1: for every parenthesis-free chain of operands separated by registered *)
(* binary operators, ParseExpr returns the tree of reference precedence    *)
(* parsing (higher precedence binds first, equal precedence groups left to *)
(* right), for chains of any length and any mix of precedences.            *)
C1_ChainParsesAsReference ==
  ChainParsed(last.ops0) => last.ast.Body = RefTree(ItemTokens, last.ops0)

(* C2: for s < e the lowered loop `for i = s, i < e, 1 in f(i)' calls f     *)
(* exactly e - s times, with i = s, ..., e-1 in that order, and the loop    *)
(* evaluates to 0.                                                         *)
C2_LoopRunsEndMinusStartTimes ==
  (input \in LoopInputs /\ last.kind = "expr" /\ last.lowered) =>
    LET s == input[10].n
        e == input[14].n
    IN /\ last.run.status = "ok"
       /\ last.run.val = 0
       /\ last.run.trace = [i \in 1..(e - s) |-> [f |-> "f", args |-> <<s + i - 1>>]]

\* operators some module held by the execution engine defines a body for
DefinedOps ==
  {c \in DOMAIN binaryOpPrecedence :
     /\ ("binary" \o c) \in DOMAIN functionPrototypes
     /\ \E i \in 1..Len(jit) :
          ("binary" \o c) \in DOMAIN jit[i] /\ jit[i]["binary" \o c].HasBody}

\* the table the declarations call for
DeclaredTable ==
  [c \in BuiltinBinaryOps \cup DefinedOps |->
     IF c \in DefinedOps THEN functionPrototypes["binary" \o c].Precedence
     ELSE BuiltinPrecedence[c]]

(* C3: after `def binary S p (a b) body' lowers successfully the Operator   *)
(* Table maps S to p, and every expression parsed afterwards groups S      *)
(* against the built-in operators according to p.                          *)
C3_UserOperatorPrecedence ==
  /\ (last.kind = "def" /\ last.lowered /\ isBinaryOp(last.ast.Proto)) =>
       binaryOpPrecedence[getOperatorName(last.ast.Proto)] = last.ast.Proto.Precedence
  /\ (DefinedOps # {} /\ ChainParsed(DeclaredTable)
        /\ \E i \in 1..Len(ItemTokens) : ItemTokens[i].s \in DefinedOps) =>
       last.ast.Body = RefTree(ItemTokens, DeclaredTable)

\* the first half of C3 alone
C3_TableHoldsDeclaredPrecedence ==
  (last.kind = "def" /\ last.lowered /\ isBinaryOp(last.ast.Proto)) =>
     binaryOpPrecedence[getOperatorName(last.ast.Proto)] = last.ast.Proto.Precedence

-----------------------------------------------------------------------------
(* Observations on the last handled item *)

UnknownFunction == "Codegen error: Unknown function referenced"
UnknownVariable == "Codegen error: Unknown variable name."
InDiag(msg) == \E i \in 1..Len(diag) : diag[i] = msg

\* the last step handled a top-level item (it was not the return of main)
ItemHandled == last.kind \in {"def", "extern", "expr"}

\* the names a scope map binds to storage: a null entry binds nothing
Bound(nv) == [n \in {x \in DOMAIN nv : nv[x] # 0} |-> nv[n]]

\* modules the execution engine held when the last item was dispatched
JitBefore ==
  IF last.kind = "def" /\ last.lowered THEN SubSeq(jit, 1, Len(jit) - 1) ELSE jit

(* C4: lowering a var/in block leaves the Scope map as it was before the    *)
(* block (every name it bound is restored, or removed if it had no prior   *)
(* binding), so that the text `var x = a in (var x = b in x) + x' is one    *)
(* top-level expression that evaluates to b + a (3.0 for a = 1, b = 2).     *)
C4_VarBlockRestoresScope ==
  /\ \A i \in 1..Len(last.frames) :
       Bound(last.frames[i].after) = Bound(last.frames[i].before)
  /\ (input \in VarShadowItems /\ last.dispatch = 1) =>
       /\ last.kind = "expr"
       /\ last.parsed /\ last.parseEnd = Len(input) + 1
       /\ last.lowered
       /\ last.run.status = "ok"
       /\ last.run.val = input[10].n + input[4].n

(* C5: when lowering an item reaches a call to a name that is neither in    *)
(* the current module nor in the prototype registry, the item fails with   *)
(* the `Unknown function referenced' diagnostic, the driver is back in its *)
(* loop, and the scope every later function body starts from holds only    *)
(* storage created for that body (nothing left over from an earlier item). *)
C5_UnknownCallRecovers ==
  /\ InDiag(UnknownFunction) => (~last.lowered /\ pc = "loop")
  /\ \A i \in 1..Len(last.bodies) :
       \A n \in DOMAIN last.bodies[i].scope :
         last.bodies[i].scope[n] > last.bodies[i].base

\* C5 for the items that reference no unknown variable
C5_UnknownCallAloneRecovers ==
  /\ (InDiag(UnknownFunction) /\ ~InDiag(UnknownVariable)) =>
       (~last.lowered /\ pc = "loop")
  /\ \A i \in 1..Len(last.bodies) :
       \A n \in DOMAIN last.bodies[i].scope :
         last.bodies[i].scope[n] > last.bodies[i].base

(* C6: a definition with a body for a name the execution engine already    *)
(* holds a lowered definition of fails with a diagnostic, and its body is   *)
(* not lowered (stated for the definitions whose body references no         *)
(* unknown variable).                                                      *)
C6_RedefinitionRejected ==
  (last.kind = "def" /\ last.parsed /\ ~InDiag(UnknownVariable)
     /\ findSymbol(JitBefore, last.ast.Proto.Name).found) =>
    /\ ~last.lowered
    /\ last.bodies = <<>>
    /\ diag # <<>>

(* C7: lowering a reference to a name with no Scope map entry emits the     *)
(* unknown-variable diagnostic and returns the failure value without        *)
(* emitting a load: the item is not lowered and the driver is back in its   *)
(* loop.                                                                   *)
C7_UnknownVariableFails ==
  InDiag(UnknownVariable) => (~last.lowered /\ pc = "loop")

(* C8: no parse or lowering failure ends or aborts the process, and the     *)
(* loop stops only when the token it dispatches on is end-of-input.         *)
C8_OnlyEofStopsLoop ==
  /\ pc # "aborted"
  /\ pc = "returned" => TokAt(pos) = tok_eof

(* C9: when the parse of an item fails, exactly one token is discarded, the *)
(* one current at the failure, and the next dispatch is on the token that   *)
(* follows it.                                                              *)
C9_FailureDiscardsOneToken ==
  (ItemHandled /\ ~last.parsed /\ pc = "loop") =>
    StartPs.p = Min(last.parseEnd + 1, Len(input) + 1)

(* C10: the ';' after an item is optional: when a successfully parsed item  *)
(* is not followed by ';', the next dispatch is on the first token after    *)
(* the item, so no token is dropped between two items.                      *)
C10_NoTokenDroppedBetweenItems ==
  (ItemHandled /\ last.parsed /\ pc = "loop" /\ TokAt(last.parseEnd) # Ch(";")) =>
    StartPs.p = last.parseEnd

\* what the loop does instead: the token after a parsed item is dropped,
\* whatever it is, and two tokens are dropped after a failed parse
DispatchSkipsLookahead ==
  (ItemHandled /\ pc = "loop") =>
    StartPs.p = Min(last.parseEnd + (IF last.parsed THEN 1 ELSE 2), Len(input) + 1)

(* C11: a ';' at the dispatch position is ignored: the loop goes on to the  *)
(* next item, so main returns only when it dispatches on end-of-input.      *)
C11_SemicolonIgnored ==
  last.kind = "return" => TokAt(last.dispatch) = tok_eof

-----------------------------------------------------------------------------
(* Prototypes of the last item *)

InvalidPrecedence == "Parser error: Invalid precedence: must be 1..100"
InvalidOperands == "Parser error: Invalid number of operands for operator"

\* the last item was a def or an extern: ParsePrototype was called on the
\* token after the keyword
PrototypeItem == last.kind \in {"def", "extern"}

\* the prototype ParsePrototype returned for the last item
LastProto == IF last.kind = "def" THEN last.ast.Proto ELSE last.ast

\* the form of the prototype text: `unary' or `binary' followed by a raw
\* character
OperatorForm(kind) ==
  /\ PrototypeItem
  /\ TokAt(last.dispatch + 1) = Tok(kind, "", 0)
  /\ isascii(TokAt(last.dispatch + 2))

\* the numeric literal that follows the operator symbol of a binary form
PrecedenceToken == TokAt(last.dispatch + 3)

(* C12: on the binary form, a numeric literal after the operator symbol is  *)
(* taken as the precedence only if it lies in 1..100; for any other value   *)
(* ParsePrototype reports invalid precedence and returns no prototype; no   *)
(* prototype it returns carries a precedence outside 1..100.                *)
C12_PrecedenceInRange ==
  /\ (OperatorForm("binary") /\ PrecedenceToken.t = "number") =>
       IF PrecedenceToken.n \in 1..100
         THEN /\ ~InDiag(InvalidPrecedence)
              /\ last.parsed => LastProto.Precedence = PrecedenceToken.n
       ELSE ~last.parsed /\ diag = <<InvalidPrecedence>>
  /\ (PrototypeItem /\ last.parsed) => LastProto.Precedence \in 1..100

\* a binary form with precedence 101 was rejected
C12_Witness ==
  /\ OperatorForm("binary")
  /\ PrecedenceToken = Num(101)
  /\ ~last.parsed
  /\ diag = <<InvalidPrecedence>>

\* position of the '(' of an operator prototype of the given kind
OpenParen(kind) ==
  last.dispatch + (IF kind = "binary" /\ PrecedenceToken.t = "number" THEN 4 ELSE 3)

\* number of identifiers that follow position p
ParamCount(p) ==
  CHOOSE n \in 0..Len(input) :
    /\ \A i \in 1..n : TokAt(p + i).t = "identifier"
    /\ TokAt(p + n + 1).t # "identifier"

\* the operator prototype text is complete: a valid precedence if any,
\* then '(' identifiers ')'
WellFormedOperator(kind) ==
  /\ OperatorForm(kind)
  /\ (kind = "binary" /\ PrecedenceToken.t = "number") => PrecedenceToken.n \in 1..100
  /\ TokAt(OpenParen(kind)) = Ch("(")
  /\ TokAt(OpenParen(kind) + ParamCount(OpenParen(kind)) + 1) = Ch(")")

Arity(kind) == IF kind = "unary" THEN 1 ELSE 2

(* C13: a prototype ParsePrototype returns for the unary form has exactly   *)
(* one parameter and one it returns for the binary form exactly two; with   *)
(* any other parameter count ParsePrototype fails with the invalid number   *)
(* of operands diagnostic.                                                  *)
C13_OperatorArity ==
  \A kind \in {"unary", "binary"} :
    /\ (OperatorForm(kind) /\ last.parsed) =>
         (LastProto.IsOperator /\ Len(LastProto.Args) = Arity(kind))
    /\ WellFormedOperator(kind) =>
         IF ParamCount(OpenParen(kind)) = Arity(kind)
           THEN (last.kind = "extern" => last.parsed) /\ ~InDiag(InvalidOperands)
         ELSE ~last.parsed /\ diag = <<InvalidOperands>>

\* a binary operator prototype with three parameters was rejected
C13_Witness ==
  /\ WellFormedOperator("binary")
  /\ ParamCount(OpenParen("binary")) = 3
  /\ ~last.parsed
  /\ diag = <<InvalidOperands>>

-----------------------------------------------------------------------------
(* Calls *)

IncorrectArguments == "Codegen error: Incorrect number of arguments passed"

\* the diagnostic the lowering of an argument text fails with; "" if it
\* lowers
ArgFailure(arg) ==
  CASE arg = <<"u", "(", "1", ")">> -> UnknownFunction
    [] arg = <<"g", "(", ")">> -> IncorrectArguments
    [] OTHER -> ""

\* the host calls running the arguments makes, in order, and their values
RECURSIVE ArgCalls(_)
ArgCalls(args) ==
  IF args = <<>> THEN <<>>
  ELSE (IF Head(args) = <<"g", "(", "1", ")">> THEN <<[f |-> "g", args |-> <<1>>]>>
        ELSE <<>>) \o ArgCalls(Tail(args))
ArgValues(args) ==
  [i \in 1..Len(args) |-> IF args[i] = <<"1">> THEN 1 ELSE 0]

\* the failing arguments of a call text
FailingArgs(args) == {i \in 1..Len(args) : ArgFailure(args[i]) # ""}

(* C14: a call whose argument count differs from the callee's parameter     *)
(* count fails with the incorrect-number-of-arguments diagnostic and no     *)
(* argument is lowered; otherwise the arguments are lowered left to right,  *)
(* lowering stops at the first one that fails (its diagnostic is the only   *)
(* one) and no call is emitted; with no failing argument the call is        *)
(* emitted after its arguments.  Stated for f(arg, ...) with f declared     *)
(* with two parameters.                                                     *)
C14_CallArityAndArguments ==
  \A args \in SeqsUpTo(ArgTexts, MaxArgs) :
    (input = CallInput(args) /\ last.dispatch = 14) =>
      /\ last.kind = "expr" /\ last.parsed
      /\ IF Len(args) # 2
           THEN ~last.lowered /\ diag = <<IncorrectArguments>> /\ pc = "loop"
         ELSE IF FailingArgs(args) # {}
           THEN /\ ~last.lowered /\ pc = "loop"
                /\ diag = <<ArgFailure(args[CHOOSE i \in FailingArgs(args) :
                                               \A j \in FailingArgs(args) : i <= j])>>
         ELSE /\ last.lowered /\ diag = <<>>
              /\ last.run.status = "ok"
              /\ last.run.trace =
                   ArgCalls(args) \o <<[f |-> "f", args |-> ArgValues(args)]>>

\* f(u(1), g()) failed on its first argument alone
C14_Witness ==
  /\ input = CallInput(<<<<"u", "(", "1", ")">>, <<"g", "(", ")">>>>)
  /\ last.dispatch = 14
  /\ ~last.lowered
  /\ diag = <<UnknownFunction>>

(* C15: running the lowered `if c then a else b' yields the value of a when *)
(* c is not 0 and the value of b otherwise, and only the chosen arm is run: *)
(* for `if c - d then f(1)+5 else f(2)+7' the value is 5 and the only call  *)
(* is f(1) when c # d, and 7 with the only call f(2) when c = d.            *)
C15_IfSelectsArm ==
  (input \in IfInputs /\ last.dispatch = 7) =>
    /\ last.kind = "expr" /\ last.lowered
    /\ last.run.status = "ok"
    /\ IF input[8].n - input[10].n # 0
         THEN last.run.val = 5 /\ last.run.trace = <<[f |-> "f", args |-> <<1>>]>>
       ELSE last.run.val = 7 /\ last.run.trace = <<[f |-> "f", args |-> <<2>>]>>

\* an if with a negative condition ran its then arm
C15_Witness ==
  /\ input = IfInput(0, 1)
  /\ last.dispatch = 7
  /\ last.run.status = "ok"
  /\ last.run.val = 5

-----------------------------------------------------------------------------
\* in the tree, every Binary node that is the right child of a Binary node
\* has an operator of strictly higher precedence than its parent's
RECURSIVE RightChildrenBindTighter(_, _)
RightChildrenBindTighter(ast, ops) ==
  IF ast.k # "Binary" THEN TRUE
  ELSE /\ ast.Right.k = "Binary" => ops[ast.Right.Op] > ops[ast.Op]
       /\ RightChildrenBindTighter(ast.Left, ops)
       /\ RightChildrenBindTighter(ast.Right, ops)

(* C16: the recursive call of ParseBinaryOperationRhs absorbs only          *)
(* operators of precedence strictly greater than the current operator's,    *)
(* so in the tree ParseExpr returns for a parenthesis-free chain no Binary  *)
(* node has as right child a Binary node whose operator has a precedence    *)
(* lower than or equal to its own.                                          *)
C16_RightChildBindsTighter ==
  ChainParsed(last.ops0) => RightChildrenBindTighter(last.ast.Body, last.ops0)

-----------------------------------------------------------------------------
\* the operators a table gives a precedence to (GetTokenPrecedence leaves
\* 0-entries behind for characters it looked up, which are no operators)
Operators(ops) == [c \in {x \in DOMAIN ops : ops[x] > 0} |-> ops[c]]

\* the last item was a binary-operator definition whose body failed to
\* lower with a reported error
FailedOperatorDefinition ==
  /\ last.kind = "def" /\ last.parsed /\ ~last.lowered
  /\ isBinaryOp(last.ast.Proto)
  /\ pc = "loop"

(* C17: a binary-operator definition whose body fails to lower leaves the   *)
(* Operator Table unchanged: the table after the item gives the same        *)
(* operators the same precedences as the table before it.                   *)
C17_FailedOperatorLeavesTable ==
  FailedOperatorDefinition => Operators(binaryOpPrecedence) = Operators(last.ops0)

-----------------------------------------------------------------------------
\* the last item was a function whose whole body is a counted loop, and
\* lowering it returned to the driver
LoopLowered ==
  /\ last.kind \in {"def", "expr"} /\ last.parsed
  /\ last.ast.Body.k = "For"
  /\ last.bodies # <<>>
  /\ pc = "loop"

\* the storage a scope map binds a name to (0: none)
BindingOf(nv, name) == IF name \in DOMAIN nv THEN nv[name] ELSE 0

(* C18: when lowering of a counted loop returns, successfully or with a     *)
(* failure in its body, step or end condition, the Scope map binds the      *)
(* loop variable's name to what it was bound to before the loop: the        *)
(* previous storage location, or nothing.                                   *)
C18_LoopRestoresBinding ==
  LoopLowered =>
    BindingOf(namedValues, last.ast.Body.VarName)
      = BindingOf(last.bodies[Len(last.bodies)].scope, last.ast.Body.VarName)

\* the successful half of C18
C18_SuccessfulLoopRestoresBinding ==
  (LoopLowered /\ last.lowered) =>
    BindingOf(namedValues, last.ast.Body.VarName)
      = BindingOf(last.bodies[Len(last.bodies)].scope, last.ast.Body.VarName)

-----------------------------------------------------------------------------
\* lowering of the last item's function body was started
BodyLowered ==
  /\ last.kind \in {"def", "expr"} /\ last.parsed
  /\ last.bodies # <<>>

\* the scope map as the body of the last item found it: the parameters
LastBodyScope == last.bodies[Len(last.bodies)].scope

(* C19: the Scope map holds exactly one entry for each visible name and no  *)
(* entry for any other name, and a lookup never adds an entry: when the     *)
(* lowering of a function body is over, every loop and var block of the     *)
(* body has been left, and the map holds the entries it held when the body  *)
(* started (the parameters), nothing else.                                  *)
C19_ScopeHoldsVisibleNames ==
  BodyLowered => DOMAIN namedValues = DOMAIN LastBodyScope

\* C19 on bodies that contain no loop: only lookups touch the map
RECURSIVE HasLoop(_)
HasLoop(ast) ==
  CASE ast.k = "For" -> TRUE
    [] ast.k = "Binary" -> HasLoop(ast.Left) \/ HasLoop(ast.Right)
    [] ast.k = "Unary" -> HasLoop(ast.Operand)
    [] ast.k = "If" -> HasLoop(ast.Cond) \/ HasLoop(ast.Then) \/ HasLoop(ast.Else)
    [] ast.k = "Call" -> \E i \in 1..Len(ast.Args) : HasLoop(ast.Args[i])
    [] OTHER -> FALSE
C19_LookupAddsNoEntry ==
  (BodyLowered /\ ~HasLoop(last.ast.Body)) => DOMAIN namedValues = DOMAIN LastBodyScope

-----------------------------------------------------------------------------
\* the names of a parameter list
Names(params) == {params[i] : i \in 1..Len(params)}

(* C20: when the body of a function definition starts lowering, the Scope   *)
(* map binds exactly the parameter names of the definition's own prototype  *)
(* and holds nothing else, whatever items came before it, an extern of the  *)
(* same name with other parameter names or another parameter count          *)
(* included.                                                                *)
C20_BodyScopeIsOwnParameters ==
  (last.kind = "def" /\ BodyLowered) =>
    /\ DOMAIN LastBodyScope = Names(last.ast.Proto.Args)
    /\ \A n \in DOMAIN LastBodyScope : LastBodyScope[n] # 0

\* C20 for definitions whose name no earlier item of the input declared
C20_FirstDeclarationScope ==
  (/\ last.kind = "def" /\ BodyLowered
   /\ \A i \in 1..(last.dispatch - 1) :
        ~(input[i].t = "identifier" /\ input[i].s = last.ast.Proto.Name)) =>
    /\ DOMAIN LastBodyScope = Names(last.ast.Proto.Args)
    /\ \A n \in DOMAIN LastBodyScope : LastBodyScope[n] # 0

-----------------------------------------------------------------------------
\* lowering of the last item, a function definition, returned to the driver
DefinitionLowered ==
  /\ last.kind = "def" /\ last.parsed
  /\ pc = "loop"

-----------------------------------------------------------------------------
\* the number of parameters and of arguments of a FailedDefThenCall input
DeclaredCount == CHOOSE n \in 0..MaxParams : \E m \in 0..MaxParams : input = FailedDefThenCall(n, m)
PassedCount == CHOOSE m \in 0..MaxParams : \E n \in 0..MaxParams : input = FailedDefThenCall(n, m)

(* C22: after the body of a definition fails to lower, the Function-        *)
(* Prototype Registry still maps the definition's name to the definition's  *)
(* prototype, and a later call of the name resolves: with the declared      *)
(* number of arguments it lowers, with another number it fails on the       *)
(* argument count, never with unknown function.                             *)
C22_FailedDefinitionStaysRegistered ==
  /\ (DefinitionLowered /\ ~last.lowered) =>
       /\ last.ast.Proto.Name \in DOMAIN functionPrototypes
       /\ functionPrototypes[last.ast.Proto.Name] = last.ast.Proto
  /\ (input \in FailedDefThenCallInputs /\ last.kind = "expr") =>
       /\ last.parsed
       /\ functionPrototypes["h"].Args = SubSeq(ParamNames, 1, DeclaredCount)
       /\ IF PassedCount = DeclaredCount
            THEN last.lowered /\ diag = <<>>
          ELSE ~last.lowered /\ diag = <<IncorrectArguments>>

\* def h(a b) u(1); h(1, 1): the call of the failed definition lowered
C22_Witness ==
  /\ input = FailedDefThenCall(2, 2)
  /\ last.kind = "expr" /\ last.lowered
  /\ "h" \notin UNION {DOMAIN jit[i] : i \in 1..Len(jit)}

-----------------------------------------------------------------------------
\* the number of parameters and of arguments of a RecursiveDef input
RecursiveParams == CHOOSE n \in 0..MaxParams : \E m \in 0..MaxParams : input = RecursiveDef(n, m)
RecursiveArgs == CHOOSE m \in 0..MaxParams : \E n \in 0..MaxParams : input = RecursiveDef(n, m)

(* C23: while the body of a definition of f is lowered, a call of f         *)
(* resolves to the function being defined: it never fails with unknown      *)
(* function, and with the declared number of arguments it lowers to a call  *)
(* of that function.                                                        *)
C23_RecursiveCallResolves ==
  (input \in RecursiveDefInputs /\ last.kind = "def") =>
    /\ last.parsed
    /\ ~InDiag(UnknownFunction)
    /\ IF RecursiveArgs = RecursiveParams
         THEN /\ last.lowered /\ diag = <<>>
              /\ jit[Len(jit)]["f"].Body.k = "call"
              /\ jit[Len(jit)]["f"].Body.callee = "f"
              /\ DOMAIN jit[Len(jit)] = {"f"}
       ELSE ~last.lowered /\ diag = <<IncorrectArguments>>

\* def f(a) f(1) lowered to a function that calls itself
C23_Witness ==
  /\ input = RecursiveDef(1, 1)
  /\ last.kind = "def" /\ last.lowered
  /\ jit[1]["f"].Body = [k |-> "call", callee |-> "f", args |-> <<[k |-> "const", v |-> 1]>>]

-----------------------------------------------------------------------------
UnknownUnaryOperator == "Codegen error: Unknown unary operator"

\* the last item was an expression `S number' whose operator function
\* unary S is declared nowhere
UnresolvedUnary ==
  /\ last.kind = "expr" /\ last.parsed
  /\ last.ast.Body.k = "Unary"
  /\ last.ast.Body.Operand.k = "Number"
  /\ ("unary" \o last.ast.Body.Opcode) \notin DOMAIN functionPrototypes

-----------------------------------------------------------------------------
\* the last item lowered successfully and its handler returned to the loop
ItemLowered == ItemHandled /\ last.parsed /\ last.lowered /\ pc = "loop"

(* C25: after every top-level item that lowers successfully, definition,    *)
(* extern or anonymous expression, the current compilation unit has been    *)
(* handed off and replaced by a fresh empty unit before the next item is    *)
(* dispatched.                                                              *)
C25_SuccessStartsFreshUnit ==
  ItemLowered => module = EmptyMap

\* C25 for definitions and anonymous expressions alone
C25_DefinitionOrExpressionStartsFreshUnit ==
  (ItemLowered /\ last.kind \in {"def", "expr"}) => module = EmptyMap

-----------------------------------------------------------------------------
\* the symbols a table registers as operators
Registered(ops) == {c \in DOMAIN ops : ops[c] > 0}

(* C26: every symbol registered in the Operator Table has a precedence in   *)
(* 1..100, and a symbol that was registered when an item was dispatched is  *)
(* still registered after the item: no lookup during parsing and no         *)
(* definition, successful or failed, removes it or sets it to 0 or less.    *)
C26_OperatorsStayRegistered ==
  /\ \A c \in Registered(binaryOpPrecedence) : binaryOpPrecedence[c] \in 1..100
  /\ Registered(last.ops0) \subseteq Registered(binaryOpPrecedence)

\* def binary + 5 (a b) u(a) failed: + is overwritten and still registered,
\* and the lookups of the parser left entries of precedence 0
C26_Witness ==
  /\ FailedOperatorDefinition
  /\ last.ast.Proto.Name = "binary+"
  /\ last.ops0["+"] = 20 /\ binaryOpPrecedence["+"] = 5
  /\ \E c \in DOMAIN binaryOpPrecedence : binaryOpPrecedence[c] = 0

-----------------------------------------------------------------------------
BinaryOperatorNotFound == "Assertion failed: binary operator not found!"

\* a lowered expression calls a function through a null pointer
RECURSIVE CallsNull(_)
CallsNull(ir) ==
  CASE ir.k = "call" -> ir.callee = "" \/ \E i \in 1..Len(ir.args) : CallsNull(ir.args[i])
    [] ir.k = "binop" -> CallsNull(ir.l) \/ CallsNull(ir.r)
    [] ir.k = "if" -> CallsNull(ir.c) \/ CallsNull(ir.t) \/ CallsNull(ir.e)
    [] ir.k = "for" -> CallsNull(ir.start) \/ CallsNull(ir.body) \/ CallsNull(ir.step)
                         \/ CallsNull(ir.end)
    [] OTHER -> FALSE

(* C27: the assertion `binary operator not found!' never fails: every       *)
(* symbol registered in the Operator Table other than + - * < has a         *)
(* binary S prototype in the Function-Prototype Registry, so that no        *)
(* lowering stops at the assertion and no lowered function calls an         *)
(* unresolved operator.                                                     *)
C27_BinaryOperatorResolves ==
  /\ \A c \in Registered(binaryOpPrecedence) \ BuiltinBinaryOps :
       ("binary" \o c) \in DOMAIN functionPrototypes
  /\ ~InDiag(BinaryOperatorNotFound)
  /\ \A i \in 1..Len(jit) : \A f \in DOMAIN jit[i] :
       jit[i][f].HasBody => ~CallsNull(jit[i][f].Body)

\* def binary | 5 (a b) u(a); 1 | 2: the operator of the failed definition
\* was used and resolved
C27_Witness ==
  /\ input \in FailingOperatorInputs
  /\ last.kind = "expr" /\ last.lowered
  /\ last.ast.Body.k = "Binary" /\ last.ast.Body.Op = UserOp
  /\ "binary|" \in DOMAIN functionPrototypes
  /\ \A i \in 1..Len(jit) : "binary|" \notin DOMAIN jit[i]

-----------------------------------------------------------------------------
(* C28: the lowered counted loop runs its body once before the end          *)
(* condition is evaluated for the first time: `for i = s, i < e, 1 in f(i)'  *)
(* with e <= s, whose end condition is false for the start value, calls     *)
(* f(s) once, then leaves the loop with the value 0.                        *)
C28_BodyRunsBeforeEndCondition ==
  (input \in FalseStartLoopInputs /\ last.kind = "expr") =>
    /\ last.lowered
    /\ last.run.status = "ok"
    /\ last.run.val = 0
    /\ last.run.trace = <<[f |-> "f", args |-> <<input[10].n>>]>>

\* for i = 2, i < 1, 1 in f(i) called f(2)
C28_Witness ==
  /\ input = LoopInput(2, 1)
  /\ last.kind = "expr" /\ last.lowered
  /\ last.run.trace = <<[f |-> "f", args |-> <<2>>]>>

-----------------------------------------------------------------------------
\* 2 S 3 by the built-in arithmetic and comparison
BuiltinValue(S) ==
  CASE S = "+" -> 5 [] S = "-" -> -1 [] S = "*" -> 6 [] S = "<" -> 1

(* C29: a binary-operator definition for one of + - * < changes the         *)
(* symbol's precedence in the Operator Table and not its lowering: after    *)
(* `def binary S p (a b) 7' the table maps S to p, and `2 S 3' lowers to    *)
(* the built-in operation and evaluates to its value, never to the 7 of     *)
(* the user-defined function.                                               *)
C29_BuiltinLoweringKept ==
  (input \in BuiltinRedefInputs /\ ItemHandled) =>
    /\ last.lowered
    /\ binaryOpPrecedence[input[3].s] = input[4].n
    /\ jit # <<>> /\ jit[1][("binary" \o input[3].s)].HasBody
    /\ last.kind = "expr" =>
         /\ last.ast.Body = BinaryExprAST(input[3].s, NumberExprAST(2), NumberExprAST(3))
         /\ last.run.status = "ok"
         /\ last.run.val = BuiltinValue(input[3].s)
         /\ last.run.trace = <<>>

\* def binary * 5 (a b) 7; 2 * 3 evaluated to 6
C29_Witness ==
  /\ input = BuiltinRedef("*", 5)
  /\ last.kind = "expr" /\ last.lowered
  /\ binaryOpPrecedence["*"] = 5
  /\ last.run.val = 6

-----------------------------------------------------------------------------
\* the units the engine holds that define the anonymous expression
AnonUnits == {i \in 1..Len(jit) : "__anon_expr" \in DOMAIN jit[i]}

(* C30: the unit of an anonymous top-level expression is added to the       *)
(* engine, evaluated once and removed before the next item is dispatched:   *)
(* the engine never holds two units that define __anon_expr and holds none  *)
(* when an item is dispatched; the units added for definitions are never    *)
(* removed.                                                                 *)
C30_AnonymousUnitRemoved ==
  /\ Cardinality(AnonUnits) <= 1
  /\ pc \in {"loop", "returned"} => AnonUnits = {}
  /\ Len(jit) >= Len(last.jit0) /\ SubSeq(jit, 1, Len(last.jit0)) = last.jit0
  /\ (last.kind = "expr" /\ last.lowered /\ pc = "loop") =>
       /\ jit = last.jit0
       /\ last.run.status = "ok"
  /\ (last.kind = "def" /\ last.lowered /\ pc = "loop") =>
       /\ Len(jit) = Len(last.jit0) + 1
       /\ last.ast.Proto.Name \in DOMAIN jit[Len(jit)]

\* def f(x) x; f(2): the expression ran in the engine next to the unit of f
\* and only the unit of f is left
C30_Witness ==
  /\ last.kind = "expr" /\ last.lowered /\ pc = "loop"
  /\ last.run.status = "ok" /\ last.run.val = 2
  /\ Len(jit) = 1 /\ DOMAIN jit[1] = {"f"}
  /\ last.jit0 = jit

====
